---- MODULE Spec2Model ----
(***************************************************************************)
(* Model of the AI e-mail agent worker (src/src/app.py) together with the  *)
(* collaborators its pipeline drives: the ai_triggers table, the Missive   *)
(* posts API (src/src/missive.py) and the Claude call (src/src/claude.py). *)
(*                                                                         *)
(* A storage operation is one transaction: it either commits and returns   *)
(* or raises with nothing applied (psycopg rolls back on the way out of    *)
(* the `with` block).                                                      *)
(***************************************************************************)
EXTENDS Integers, Sequences, FiniteSets, TLC

\* ------------------------------------------------------------------ bounds
NumWorkers == 2
MaxTriggers == 2
MaxFaults == 1

Workers == 1..NumWorkers
TriggerIds == 1..MaxTriggers
Conversations == {"c1"}
Texts == {<<"Done.">>}

\* ------------------------------------------------------------ SQL helpers
\* SQL NULL / Python None; a present value v is carried as <<v>>.
NULL == <<>>

Some(v) == <<v>>

Val(x) == x[1]

COALESCE(arg, old) == IF arg = NULL THEN old ELSE arg

\* str(e)[:100] of the error message
ErrorFragmentLen == 100

Min(a, b) == IF a < b THEN a ELSE b

Truncate(s, n) == SubSeq(s, 1, Min(n, Len(s)))

\* the markdown bodies the pipeline posts
PlaceholderMarkdown == <<"Researching...">>

GenericErrorText == "AI temporarily unavailable. Please try again later."

ErrorMarkdown(err) == <<GenericErrorText>> \o Truncate(err, ErrorFragmentLen)

\* str(e) of an anthropic.APIError
RawApiError == <<"o", "v", "e", "r", "l", "o", "a", "d", "e", "d">>

\* the strings call_claude returns from its except branches
ClaudeApiErrorText == <<"AI error: ">> \o RawApiError

ClaudeTimeoutText == <<"AI timeout - request took too long">>

\* str(e) of the exceptions that reach process_trigger's except branch
StorageError == <<"s", "t", "o", "r", "a", "g", "e">>

VARIABLES
    triggers,            \* ai_triggers: id -> row
    posts,               \* Missive: post id -> [conversation, markdown, exists]
    shutdown_requested,  \* per worker process: the module-level flag
    pc,                  \* per worker: position in main / process_trigger
    sel,                 \* per worker: row locked by the claim's sub-select
    trigger,             \* per worker: the dict claim_pending_trigger returned
    placeholder_id,      \* per worker: process_trigger local
    rendered_prompt,     \* per worker: which template was rendered, read from where
    response,            \* per worker: process_trigger local
    result_post_id,      \* per worker: process_trigger local
    e,                   \* per worker: the caught exception, str(e)
    error_post_id,       \* per worker: process_trigger local
    log,                 \* per worker: events of the current pipeline run
    faults,              \* collaborator failures injected so far
    claimed,             \* per trigger id: how many claim calls returned it
    probe                \* the call under test of a function exercised on its own

locals == <<trigger, placeholder_id, rendered_prompt, response, result_post_id, e, error_post_id>>

vars == <<triggers, posts, shutdown_requested, pc, sel, locals, log, faults, claimed, probe>>

\* ------------------------------------------------------------------ store
Max(a, b) == IF a > b THEN a ELSE b

\* NOW() on insert: later than the creation time of every row already stored
InsertTime == 1 + Cardinality(DOMAIN triggers)

\* NOW() in an UPDATE of a row: later than every time the row already holds
NOW(row) == 1 + Max(row.created_at, IF row.processed_at = NULL THEN 0 ELSE Val(row.processed_at))

\* ids are opaque (UUIDs): the n-th trigger inserted gets the n-th largest id, so
\* that the order of ids is not the order of creation
NextTriggerId == MaxTriggers - Cardinality(DOMAIN triggers)

\* what the upstream collaborator stores with trigger t: the comment that mentioned
\* the agent and its author (a UUID); both columns are nullable
CommentBodyOf(t) == IF t = 1 THEN NULL ELSE Some(<<"@ai", ToString(t)>>)

AuthorIdOf(t) == IF t = 2 THEN NULL ELSE Some(100 + t)

NewRow(conv, ts) ==
    [status |-> "pending", conversation_id |-> conv,
     comment_body |-> CommentBodyOf(NextTriggerId), author_id |-> AuthorIdOf(NextTriggerId),
     placeholder_post_id |-> NULL, result_post_id |-> NULL,
     result_markdown |-> NULL, error_message |-> NULL,
     created_at |-> ts, processed_at |-> NULL]

\* a row lock is held from the claim's sub-select until its commit
Locked(t) == \E w \in Workers : pc[w] = "claim_commit" /\ sel[w] = Some(t)

PendingRows == {t \in DOMAIN triggers : triggers[t].status = "pending"}

\* ORDER BY created_at DESC
Newest(S) == CHOOSE t \in S : \A u \in S : triggers[t].created_at >= triggers[u].created_at

\* ORDER BY created_at ASC LIMIT 1
Oldest(S) == CHOOSE t \in S : \A u \in S : triggers[t].created_at <= triggers[u].created_at

\* SELECT id ... WHERE status = 'pending' ORDER BY created_at LIMIT 1 FOR UPDATE: locks ignored
SelectNoSkip ==
    IF PendingRows = {} THEN NULL ELSE Some(Oldest(PendingRows))

\* SELECT ... LIMIT 1 taken before the lock test: a locked first row yields no row
SelectLimitFirst ==
    IF PendingRows = {} \/ Locked(Oldest(PendingRows)) THEN NULL ELSE Some(Oldest(PendingRows))

\* SELECT id ... WHERE status <> 'done' ORDER BY created_at LIMIT 1 FOR UPDATE SKIP LOCKED
SelectNotDone ==
    LET S == {t \in DOMAIN triggers : triggers[t].status # "done" /\ ~Locked(t)}
    IN IF S = {} THEN NULL ELSE Some(Oldest(S))

\* SELECT id ... WHERE status = 'pending' ORDER BY created_at ASC LIMIT 1 FOR UPDATE SKIP LOCKED
SelectForUpdateSkipLocked ==
    LET S == {t \in PendingRows : ~Locked(t)}
    IN IF S = {} THEN NULL ELSE Some(Oldest(S))

\* UPDATE ai_triggers SET status = 'processing', processed_at = NOW() WHERE id = ...
ClaimUpdate(rows, id) ==
    [rows EXCEPT ![id] = [@ EXCEPT !.status = "processing", !.processed_at = Some(NOW(rows[id]))]]

\* str(row[3]) of a UUID column
str(v) == ToString(v)

\* the string '' (a text is the sequence of its pieces)
EmptyText == <<>>

\* the dict built from RETURNING id, conversation_id, comment_body, author_id
ClaimedTrigger(rows, id) ==
    [id |-> id,
     conversation_id |-> rows[id].conversation_id,
     comment_body |-> IF rows[id].comment_body = NULL THEN EmptyText ELSE Val(rows[id].comment_body),
     author_id |-> IF rows[id].author_id = NULL THEN NULL ELSE Some(str(Val(rows[id].author_id)))]

\* update_trigger_status writing every argument as given, without COALESCE
update_trigger_status_Overwrite(rows, id, status, ph, rp, rm, em) ==
    IF id \notin DOMAIN rows THEN rows
    ELSE [rows EXCEPT ![id] =
            [@ EXCEPT !.status = status,
                      !.placeholder_post_id = ph,
                      !.result_post_id = rp,
                      !.result_markdown = rm,
                      !.error_message = em,
                      !.processed_at = Some(NOW(rows[id]))]]

\* update_trigger_status without its WHERE id = %s: every row is written
update_trigger_status_AllRows(rows, id, status, ph, rp, rm, em) ==
    [t \in DOMAIN rows |->
        [rows[t] EXCEPT !.status = status,
                        !.placeholder_post_id = COALESCE(ph, @),
                        !.result_post_id = COALESCE(rp, @),
                        !.result_markdown = COALESCE(rm, @),
                        !.error_message = COALESCE(em, @),
                        !.processed_at = Some(NOW(rows[t]))]]

\* update_trigger_status: the COALESCE partial update
update_trigger_status(rows, id, status, ph, rp, rm, em) ==
    IF id \notin DOMAIN rows THEN rows
    ELSE [rows EXCEPT ![id] =
            [@ EXCEPT !.status = status,
                      !.placeholder_post_id = COALESCE(ph, @),
                      !.result_post_id = COALESCE(rp, @),
                      !.result_markdown = COALESCE(rm, @),
                      !.error_message = COALESCE(em, @),
                      !.processed_at = Some(NOW(rows[id]))]]

\* -------------------------------------------------------------- messaging
\* MissiveClient.post_message, 200/201: the post exists and its id is returned
\* post ids are opaque: the n-th post created on behalf of trigger t is named <<t, n>>
NewPostId(t) == <<t, 1 + Cardinality({i \in DOMAIN posts : i[1] = t})>>

PostCreated(t, conv, markdown) ==
    posts @@ (NewPostId(t) :> [conversation |-> conv, markdown |-> markdown, exists |-> TRUE])

\* MissiveClient.delete_post, 200/204 or 404: the post is gone, True is returned
PostDeleted(id) == [posts EXCEPT ![id].exists = FALSE]

CanFail == faults < MaxFaults

\* ------------------------------------------------------------------- Init
\* no function is being exercised on its own
NoProbe == [fn |-> "none"]

\* every worker process at the top of main, nothing posted yet
InitProcess ==
    /\ posts = <<>>
    /\ shutdown_requested = [w \in Workers |-> FALSE]
    /\ pc = [w \in Workers |-> "loop"]
    /\ sel = [w \in Workers |-> NULL]
    /\ trigger = [w \in Workers |-> NULL]
    /\ placeholder_id = [w \in Workers |-> NULL]
    /\ rendered_prompt = [w \in Workers |-> NULL]
    /\ response = [w \in Workers |-> NULL]
    /\ result_post_id = [w \in Workers |-> NULL]
    /\ e = [w \in Workers |-> NULL]
    /\ error_post_id = [w \in Workers |-> NULL]
    /\ log = [w \in Workers |-> <<>>]
    /\ faults = 0
    /\ claimed = [t \in TriggerIds |-> 0]

Init ==
    /\ triggers = <<>>
    /\ probe = NoProbe
    /\ InitProcess


\* --------------------------------------------------------------- upstream
\* the upstream collaborator inserts a trigger in status pending
CreateTrigger ==
    \E conv \in Conversations :
        /\ Cardinality(DOMAIN triggers) < MaxTriggers
        /\ triggers' = triggers @@ (NextTriggerId :> NewRow(conv, InsertTime))
        /\ UNCHANGED <<posts, shutdown_requested, probe, claimed, pc, sel, locals, log, faults>>

\* no handler installed: the signal ends the process wherever it is
signal_handler_Exit(w) ==
    /\ ~shutdown_requested[w]
    /\ pc[w] # "stopped"
    /\ shutdown_requested' = [shutdown_requested EXCEPT ![w] = TRUE]
    /\ pc' = [pc EXCEPT ![w] = "stopped"]
    /\ UNCHANGED <<triggers, posts, sel, locals, log, faults, claimed, probe>>

\* SIGINT / SIGTERM delivered to worker w
signal_handler(w) ==
    /\ ~shutdown_requested[w]
    /\ pc[w] # "stopped"
    /\ shutdown_requested' = [shutdown_requested EXCEPT ![w] = TRUE]
    /\ UNCHANGED <<triggers, posts, pc, sel, locals, log, faults, claimed, probe>>

\* -------------------------------------------------------------- poll loop
\* while True:
LoopTest_Forever(w) ==
    /\ pc[w] = "loop"
    /\ pc' = [pc EXCEPT ![w] = "claim"]
    /\ UNCHANGED <<triggers, posts, shutdown_requested, probe, claimed, sel, locals, log, faults>>

\* while not shutdown_requested:
LoopTest(w) ==
    /\ pc[w] = "loop"
    /\ pc' = [pc EXCEPT ![w] = IF shutdown_requested[w] THEN "stopped" ELSE "claim"]
    /\ UNCHANGED <<triggers, posts, shutdown_requested, probe, claimed, sel, locals, log, faults>>

\* claim_pending_trigger: the statement runs its sub-select and locks the row
ClaimSelect(w) ==
    /\ pc[w] = "claim"
    /\ sel' = [sel EXCEPT ![w] = SelectForUpdateSkipLocked]
    /\ pc' = [pc EXCEPT ![w] = "claim_commit"]
    /\ UNCHANGED <<triggers, posts, shutdown_requested, probe, claimed, locals, log, faults>>

\* main treating the empty claim as a failed cycle
NoTriggerBackoff == "backoff"

\* if trigger: ... else: time.sleep(settings.poll_interval_seconds)
NoTriggerBranch == "idle"

\* claim_pending_trigger: the UPDATE is applied, committed, and the row returned
ClaimCommit(w) ==
    /\ pc[w] = "claim_commit"
    /\ IF sel[w] = NULL
       THEN /\ pc' = [pc EXCEPT ![w] = NoTriggerBranch]
            /\ UNCHANGED <<triggers, trigger, claimed>>
       ELSE /\ triggers' = ClaimUpdate(triggers, Val(sel[w]))
            /\ trigger' = [trigger EXCEPT ![w] = Some(ClaimedTrigger(triggers', Val(sel[w])))]
            /\ claimed' = [claimed EXCEPT ![Val(sel[w])] = @ + 1]
            /\ pc' = [pc EXCEPT ![w] = "post_placeholder"]
    /\ sel' = [sel EXCEPT ![w] = NULL]
    /\ UNCHANGED <<posts, shutdown_requested, probe, placeholder_id, rendered_prompt, response,
                   result_post_id, e, error_post_id, log, faults>>

\* claim_pending_trigger swallowing the storage error and returning None
ClaimRaisesAsEmpty(w) ==
    /\ pc[w] \in {"claim", "claim_commit"}
    /\ CanFail
    /\ faults' = faults + 1
    /\ sel' = [sel EXCEPT ![w] = NULL]
    /\ pc' = [pc EXCEPT ![w] = NoTriggerBranch]
    /\ UNCHANGED <<triggers, posts, shutdown_requested, probe, claimed, locals, log>>

\* claim_pending_trigger raises (storage unavailable): rolled back, main backs off
ClaimRaises(w) ==
    /\ pc[w] \in {"claim", "claim_commit"}
    /\ CanFail
    /\ faults' = faults + 1
    /\ sel' = [sel EXCEPT ![w] = NULL]
    /\ pc' = [pc EXCEPT ![w] = "backoff"]
    /\ UNCHANGED <<triggers, posts, shutdown_requested, probe, claimed, locals, log>>

\* time.sleep(settings.poll_interval_seconds)
IdleSleep(w) ==
    /\ pc[w] = "idle"
    /\ pc' = [pc EXCEPT ![w] = "loop"]
    /\ UNCHANGED <<triggers, posts, shutdown_requested, probe, claimed, sel, locals, log, faults>>

\* time.sleep(5)
BackoffSleep(w) ==
    /\ pc[w] = "backoff"
    /\ pc' = [pc EXCEPT ![w] = "loop"]
    /\ UNCHANGED <<triggers, posts, shutdown_requested, probe, claimed, sel, locals, log, faults>>


\* ---------------------------------------------------------------- pipeline
Goto(w, p) == pc' = [pc EXCEPT ![w] = p]

Emit(w, ev) == log' = [log EXCEPT ![w] = Append(@, ev)]

\* the run of worker w has gone through event ev
InLog(w, ev) == \E i \in 1..Len(log[w]) : log[w][i] = ev

Fault == CanFail /\ faults' = faults + 1

\* trigger['id'] and trigger['conversation_id'] of the dict the claim returned
trigger_id(w) == Val(trigger[w]).id

conversation_id(w) == Val(trigger[w]).conversation_id

\* 1. placeholder_id = missive.post_message(conversation_id, "Researching...")
PostPlaceholder(w) ==
    /\ pc[w] = "post_placeholder"
    /\ \/ /\ posts' = PostCreated(trigger_id(w), conversation_id(w), PlaceholderMarkdown)
          /\ placeholder_id' = [placeholder_id EXCEPT ![w] = Some(NewPostId(trigger_id(w)))]
          /\ Goto(w, "record_placeholder")
          /\ Emit(w, "placeholder_created")
          /\ UNCHANGED faults
       \/ /\ Fault
          /\ Goto(w, "fetch_context")
          /\ Emit(w, "placeholder_post_failed")
          /\ UNCHANGED <<posts, placeholder_id>>
    /\ UNCHANGED <<triggers, shutdown_requested, probe, claimed, sel, trigger, rendered_prompt,
                   response, result_post_id, e, error_post_id>>

\* if placeholder_id: update_trigger_status(trigger_id, 'processing', placeholder_post_id=...)
\* (before the try: an exception leaves process_trigger)
RecordPlaceholder(w) ==
    /\ pc[w] = "record_placeholder"
    /\ \/ /\ triggers' = update_trigger_status(triggers, trigger_id(w), "processing",
                                               placeholder_id[w], NULL, NULL, NULL)
          /\ Goto(w, "fetch_context")
          /\ Emit(w, "placeholder_recorded")
          /\ UNCHANGED faults
       \/ /\ Fault
          /\ Goto(w, "raised")
          /\ Emit(w, "placeholder_record_failed")
          /\ UNCHANGED triggers
    /\ UNCHANGED <<posts, shutdown_requested, probe, claimed, sel, locals>>

\* 2. ctx = fetch_context(...): raises when the storage is unavailable
FetchContext(w) ==
    /\ pc[w] = "fetch_context"
    /\ \/ /\ Goto(w, "render")
          /\ Emit(w, "context_fetched")
          /\ UNCHANGED <<e, faults>>
       \/ /\ Fault
          /\ e' = [e EXCEPT ![w] = Some(StorageError)]
          /\ Goto(w, "exc_delete")
          /\ Emit(w, "context_failed")
    /\ UNCHANGED <<triggers, posts, shutdown_requested, probe, claimed, sel, trigger, placeholder_id,
                   rendered_prompt, response, result_post_id, error_post_id>>

\* what the read of app_settings finds: a row with a prompt, a row with an empty or
\* missing prompt, no row, or the storage unreachable
PromptSources == {"override", "empty", "absent", "unreachable"}

\* get_system_prompt returning row[0] whenever there is a row
get_system_prompt_NoFallback(src) == IF src \in {"override", "empty"} THEN src ELSE "default"

\* get_system_prompt: the override when the row holds a non-empty one, else the default
get_system_prompt(src) == IF src = "override" THEN "override" ELSE "default"

\* 3. system_prompt = get_system_prompt(); rendered_prompt = render_template(...)
Render(w) ==
    /\ pc[w] = "render"
    /\ \E src \in PromptSources :
          /\ IF src = "unreachable" THEN Fault ELSE UNCHANGED faults
          /\ rendered_prompt' = [rendered_prompt EXCEPT ![w] =
                                    Some([source |-> src, template |-> get_system_prompt(src)])]
    /\ Goto(w, "call_claude")
    /\ Emit(w, "rendered")
    /\ UNCHANGED <<triggers, posts, shutdown_requested, probe, claimed, sel, trigger, placeholder_id,
                   response, result_post_id, e, error_post_id>>

\* 4. response = call_claude(rendered_prompt): every exception is caught inside
\* call_claude and comes back as the returned text (rendered_prompt is dead afterwards)
CallClaude(w) ==
    /\ pc[w] = "call_claude"
    /\ \/ /\ \E text \in Texts : response' = [response EXCEPT ![w] = Some(text)]
          /\ Emit(w, "claude_returned")
          /\ UNCHANGED faults
       \/ /\ Fault
          /\ \E text \in {ClaudeApiErrorText, ClaudeTimeoutText} :
                response' = [response EXCEPT ![w] = Some(text)]
          /\ Emit(w, "claude_failed")
    /\ rendered_prompt' = [rendered_prompt EXCEPT ![w] = NULL]
    /\ Goto(w, "delete_placeholder")
    /\ UNCHANGED <<triggers, posts, shutdown_requested, probe, claimed, sel, trigger, placeholder_id,
                   result_post_id, e, error_post_id>>

\* missive.delete_post(placeholder_id): True on 200/204 and on 404, False otherwise
delete_post(w, ok, absent, failed) ==
    \/ /\ posts[Val(placeholder_id[w])].exists
       /\ posts' = PostDeleted(Val(placeholder_id[w]))
       /\ Emit(w, ok)
       /\ UNCHANGED faults
    \/ /\ ~posts[Val(placeholder_id[w])].exists
       /\ Emit(w, absent)
       /\ UNCHANGED <<posts, faults>>
    \/ /\ Fault
       /\ Emit(w, failed)
       /\ UNCHANGED posts

\* step 5 left out: the result is posted with the placeholder still in place
DeletePlaceholderSkipped(w) ==
    /\ pc[w] = "delete_placeholder"
    /\ Goto(w, "post_result")
    /\ UNCHANGED <<triggers, posts, shutdown_requested, probe, claimed, sel, locals, log, faults>>

\* 5. if placeholder_id: missive.delete_post(placeholder_id)
DeletePlaceholder(w) ==
    /\ pc[w] = "delete_placeholder"
    /\ IF placeholder_id[w] = NULL
       THEN UNCHANGED <<posts, log, faults>>
       ELSE delete_post(w, "placeholder_deleted", "placeholder_absent", "placeholder_delete_failed")
    /\ Goto(w, "post_result")
    /\ UNCHANGED <<triggers, shutdown_requested, probe, claimed, sel, locals>>

\* 6. result_post_id = missive.post_message(conversation_id, response)
PostResult(w) ==
    /\ pc[w] = "post_result"
    /\ \/ /\ posts' = PostCreated(trigger_id(w), conversation_id(w), Val(response[w]))
          /\ result_post_id' = [result_post_id EXCEPT ![w] = Some(NewPostId(trigger_id(w)))]
          /\ Emit(w, "result_posted")
          /\ UNCHANGED faults
       \/ /\ Fault
          /\ Emit(w, "result_post_failed")
          /\ UNCHANGED <<posts, result_post_id>>
    /\ Goto(w, "write_done")
    /\ UNCHANGED <<triggers, shutdown_requested, probe, claimed, sel, trigger, placeholder_id,
                   rendered_prompt, response, e, error_post_id>>

\* 7. update_trigger_status(trigger_id, 'done', result_post_id=..., result_markdown=response)
WriteDone(w) ==
    /\ pc[w] = "write_done"
    /\ \/ /\ triggers' = update_trigger_status(triggers, trigger_id(w), "done",
                                               NULL, result_post_id[w], response[w], NULL)
          /\ Goto(w, "returned")
          /\ Emit(w, "done_written")
          /\ UNCHANGED <<e, faults>>
       \/ /\ Fault
          /\ e' = [e EXCEPT ![w] = Some(StorageError)]
          /\ Goto(w, "exc_delete")
          /\ Emit(w, "done_write_failed")
          /\ UNCHANGED triggers
    /\ UNCHANGED <<posts, shutdown_requested, probe, claimed, sel, trigger, placeholder_id, rendered_prompt,
                   response, result_post_id, error_post_id>>

\* except: if placeholder_id: missive.delete_post(placeholder_id)
ExcDelete(w) ==
    /\ pc[w] = "exc_delete"
    /\ IF placeholder_id[w] = NULL
       THEN UNCHANGED <<posts, log, faults>>
       ELSE delete_post(w, "compensate_deleted", "compensate_absent", "compensate_delete_failed")
    /\ Goto(w, "exc_post")
    /\ UNCHANGED <<triggers, shutdown_requested, probe, claimed, sel, locals>>

\* except: error_post_id = missive.post_message(conversation_id, generic text + str(e)[:100])
ExcPost(w) ==
    /\ pc[w] = "exc_post"
    /\ \/ /\ posts' = PostCreated(trigger_id(w), conversation_id(w), ErrorMarkdown(Val(e[w])))
          /\ error_post_id' = [error_post_id EXCEPT ![w] = Some(NewPostId(trigger_id(w)))]
          /\ Emit(w, "error_posted")
          /\ UNCHANGED faults
       \/ /\ Fault
          /\ Emit(w, "error_post_failed")
          /\ UNCHANGED <<posts, error_post_id>>
    /\ Goto(w, "exc_write")
    /\ UNCHANGED <<triggers, shutdown_requested, probe, claimed, sel, trigger, placeholder_id,
                   rendered_prompt, response, result_post_id, e>>

\* except: update_trigger_status(trigger_id, 'error', result_post_id=error_post_id,
\*                               error_message=str(e))
ExcWrite(w) ==
    /\ pc[w] = "exc_write"
    /\ \/ /\ triggers' = update_trigger_status(triggers, trigger_id(w), "error",
                                               NULL, error_post_id[w], NULL, e[w])
          /\ Goto(w, "returned")
          /\ Emit(w, "error_written")
          /\ UNCHANGED faults
       \/ /\ Fault
          /\ Goto(w, "raised")
          /\ Emit(w, "error_write_failed")
          /\ UNCHANGED triggers
    /\ UNCHANGED <<posts, shutdown_requested, probe, claimed, sel, locals>>

ClearLocals(w) ==
    /\ trigger' = [trigger EXCEPT ![w] = NULL]
    /\ placeholder_id' = [placeholder_id EXCEPT ![w] = NULL]
    /\ rendered_prompt' = [rendered_prompt EXCEPT ![w] = NULL]
    /\ response' = [response EXCEPT ![w] = NULL]
    /\ result_post_id' = [result_post_id EXCEPT ![w] = NULL]
    /\ e' = [e EXCEPT ![w] = NULL]
    /\ error_post_id' = [error_post_id EXCEPT ![w] = NULL]
    /\ log' = [log EXCEPT ![w] = <<>>]

\* process_trigger returned: main starts its next cycle
ProcessReturned(w) ==
    /\ pc[w] = "returned"
    /\ Goto(w, "loop")
    /\ ClearLocals(w)
    /\ UNCHANGED <<triggers, posts, shutdown_requested, probe, claimed, sel, faults>>

\* main without its except branch: the exception ends the poll loop
ProcessRaisedCrash(w) ==
    /\ pc[w] = "raised"
    /\ Goto(w, "stopped")
    /\ ClearLocals(w)
    /\ UNCHANGED <<triggers, posts, shutdown_requested, probe, claimed, sel, faults>>

\* process_trigger raised: main logs the error and backs off
ProcessRaised(w) ==
    /\ pc[w] = "raised"
    /\ Goto(w, "backoff")
    /\ ClearLocals(w)
    /\ UNCHANGED <<triggers, posts, shutdown_requested, probe, claimed, sel, faults>>

\* ------------------------------------------------------------------- Next
WorkerStep(w) ==
    \/ LoopTest(w)
    \/ ClaimSelect(w)
    \/ ClaimCommit(w)
    \/ ClaimRaises(w)
    \/ IdleSleep(w)
    \/ BackoffSleep(w)
    \/ PostPlaceholder(w)
    \/ RecordPlaceholder(w)
    \/ FetchContext(w)
    \/ Render(w)
    \/ CallClaude(w)
    \/ DeletePlaceholder(w)
    \/ PostResult(w)
    \/ WriteDone(w)
    \/ ExcDelete(w)
    \/ ExcPost(w)
    \/ ExcWrite(w)
    \/ ProcessReturned(w)
    \/ ProcessRaised(w)

\* the workers and the upstream collaborator, no shutdown signal delivered
Next ==
    \/ CreateTrigger
    \/ \E w \in Workers : WorkerStep(w)

Spec == Init /\ [][Next]_vars

\* every worker process keeps running; a collaborator fails at most MaxFaults times
FairSpec == Spec /\ \A w \in Workers : WF_vars(WorkerStep(w))

\* the same with SIGINT / SIGTERM delivered to any worker at any moment
NextShutdown ==
    \/ Next
    \/ \E w \in Workers : signal_handler(w)

ShutdownSpec == Init /\ [][NextShutdown]_vars

\* every worker process keeps running while signals arrive
FairShutdownSpec == ShutdownSpec /\ \A w \in Workers : WF_vars(WorkerStep(w))

ExcWriteOutage_Swallow(w) ==
    /\ pc[w] = "exc_write"
    /\ InLog(w, "context_failed")
    /\ Goto(w, "returned")
    /\ Emit(w, "error_write_failed")
    /\ UNCHANGED <<triggers, posts, shutdown_requested, probe, claimed, sel, locals, faults>>

\* an outage that lasts: the storage that failed fetch_context is still unavailable
\* when the except branch writes the error status
ExcWriteOutage(w) ==
    /\ pc[w] = "exc_write"
    /\ InLog(w, "context_failed")
    /\ Goto(w, "raised")
    /\ Emit(w, "error_write_failed")
    /\ UNCHANGED <<triggers, posts, shutdown_requested, probe, claimed, sel, locals, faults>>

NextOutage ==
    \/ Next
    \/ \E w \in Workers : ExcWriteOutage(w)

OutageSpec == Init /\ [][NextOutage]_vars

\* ------------------------------------------- update_trigger_status on its own
\* the values an optional argument / a nullable column can hold
FieldValues == {NULL, Some("a"), Some("b")}

Statuses == {"processing", "done", "error"}

\* the rows update_trigger_status can find in the table
StoredRows ==
    {[status |-> s, conversation_id |-> "c1",
      comment_body |-> CommentBodyOf(1), author_id |-> AuthorIdOf(1),
      placeholder_post_id |-> ph, result_post_id |-> rp,
      result_markdown |-> rm, error_message |-> em,
      created_at |-> 1, processed_at |-> Some(2)] :
        s \in Statuses, ph \in FieldValues, rp \in FieldValues,
        rm \in FieldValues, em \in FieldValues}

UpdateInit ==
    /\ \E row \in StoredRows : triggers = (1 :> row)
    /\ probe = NoProbe
    /\ InitProcess

\* update_trigger_status(1, status, ph, rp, rm, em), the row before the call remembered
UpdateCall ==
    \E status \in Statuses, ph \in FieldValues, rp \in FieldValues,
       rm \in FieldValues, em \in FieldValues :
        /\ probe = NoProbe
        /\ triggers' = update_trigger_status(triggers, 1, status, ph, rp, rm, em)
        /\ probe' = [fn |-> "update", calls |-> 1, before |-> triggers[1],
                     status |-> status, ph |-> ph, rp |-> rp, rm |-> rm, em |-> em]
        /\ UNCHANGED <<posts, shutdown_requested, claimed, pc, sel, locals, log, faults>>

\* the same call made a second time
UpdateAgain ==
    /\ probe.fn = "update"
    /\ probe.calls = 1
    /\ triggers' = update_trigger_status(triggers, 1, probe.status, probe.ph, probe.rp,
                                         probe.rm, probe.em)
    /\ probe' = [probe EXCEPT !.calls = 2, !.before = triggers[1]]
    /\ UNCHANGED <<posts, shutdown_requested, claimed, pc, sel, locals, log, faults>>

UpdateNext == UpdateCall \/ UpdateAgain

UpdateSpec == UpdateInit /\ [][UpdateNext]_vars

\* ------------------------------------------------- render_template on its own
\* A text is the sequence of its pieces; a piece is "{", "}", a word (a run of \w
\* characters) or any other stretch of characters.
MaxTemplateLen == 5
MaxClock == 2

\* clock ticks that fall into one minute of the wall clock
TicksPerMinute == 2

\* the keys of the variables dict
Vocabulary ==
    {"current_datetime", "trigger_author", "trigger_instruction", "conversation_subject",
     "conversation_url", "project_name", "project_id", "emails_summary", "emails_metadata",
     "emails_count", "comments", "tasks", "anforderungen", "hinweise", "files", "craft_docs"}

\* the pieces that match \w+
IsWord(x) == x \in Vocabulary \cup {"bogus", "unknown", "task_id"}

TemplatePieces == {"{", "}", "tasks", "current_datetime", "bogus", " "}

Templates == UNION {[1..n -> TemplatePieces] : n \in 0..MaxTemplateLen}

RECURSIVE Join(_)
\* "\n".join(lines)
Join(lines) ==
    IF lines = <<>> THEN <<>>
    ELSE IF Len(lines) = 1 THEN lines[1]
    ELSE lines[1] \o <<"\n">> \o Join(Tail(lines))

RECURSIVE ConcatAll(_)
\* the lines appended item after item
ConcatAll(groups) == IF groups = <<>> THEN <<>> ELSE groups[1] \o ConcatAll(Tail(groups))

\* now.strftime("%A, %d %B %Y, %H:%M"): the time to the minute
strftime_Seconds(now) == <<"Friday, 06 November 2026, 09:", ToString(now)>>

strftime(now) == <<"Friday, 06 November 2026, 09:", ToString(now \div TicksPerMinute)>>

_format_emails_summary(emails) ==
    IF emails = <<>> THEN <<"(No emails in conversation)">>
    ELSE Join(ConcatAll([i \in 1..Len(emails) |->
            << <<"--- Email ", ToString(i), " ---">>,
               <<"ID: ">> \o emails[i].id,
               <<"From: ", emails[i].from_name, " <", emails[i].from_email, ">">>,
               <<"Subject: ", emails[i].subject>>,
               <<"Date: ">> \o emails[i].delivered_at,
               <<"Body:\n">> \o emails[i].body,
               <<>> >>]))

_format_emails_metadata(metadata) ==
    IF metadata = <<>> THEN <<"(No emails)">>
    ELSE Join([i \in 1..Len(metadata) |->
            <<"- [">> \o Truncate(metadata[i].id, 8) \o <<"...] ">>
                \o Truncate(metadata[i].delivered_at, 10)
                \o <<" | ", metadata[i].from_name, " | ", metadata[i].subject>>])

_format_comments(comments) ==
    IF comments = <<>> THEN <<"(No comments)">>
    ELSE Join([i \in 1..Len(comments) |->
            <<"[", comments[i].created_at, "] ", comments[i].author_name, ": ">>
                \o comments[i].body])

lower(label) ==
    CASE label = "Tasks" -> "tasks"
      [] label = "Anforderungen" -> "anforderungen"
      [] label = "Hinweise" -> "hinweise"

_format_tasks(tasks, label) ==
    IF tasks = <<>> THEN <<"(No ", lower(label), ")">>
    ELSE Join(<< <<label, ":">> >> \o ConcatAll([i \in 1..Len(tasks) |->
            << <<"- [", ToString(tasks[i].id), "] ", tasks[i].name>>,
               <<"  Status: ", tasks[i].status, " | Assigned: ", tasks[i].assigned_to,
                 " | Tasklist: ", tasks[i].tasklist>>,
               <<"  Updated: ", tasks[i].updated_at>> >>]))

_format_files(files) ==
    IF files = <<>> THEN <<"(No files)">>
    ELSE Join(ConcatAll([i \in 1..Len(files) |->
            << <<"- ", files[i].name>>,
               <<"  Path: ", files[i].path>>,
               <<"  Updated: ", files[i].updated_at>> >>]))

_format_craft_docs(docs) ==
    IF docs = <<>> THEN <<"(No Craft documents)">>
    ELSE Join([i \in 1..Len(docs) |->
            <<"- [", docs[i].id, "] ", docs[i].title, " (modified: ", docs[i].modified_at, ")">>])

\* a message id and a delivery time, character by character
MessageId == <<"0", "1", "2", "3", "4", "5", "6", "7", "-", "8", "9">>

DeliveredAt == <<"2", "0", "2", "6", "-", "1", "1", "-", "0", "5", " ", "1", "7", ":", "3", "0">>

\* the ConversationContext fetch_context builds for a conversation without project,
\* messages or comments, mentioned with a bare "@ai"
EmptyContext ==
    [trigger_author |-> "Unknown", trigger_instruction |-> <<>>,
     conversation_subject |-> "(No subject)", conversation_url |-> "",
     project_name |-> "Not assigned", project_id |-> NULL,
     emails |-> <<>>, emails_metadata |-> <<>>, emails_count |-> 0,
     comments |-> <<>>, tasks |-> <<>>, anforderungen |-> <<>>, hinweise |-> <<>>,
     files |-> <<>>, craft_docs |-> <<>>]

\* a conversation of a project, with one item of every kind; the comment that
\* mentioned the agent holds placeholder-shaped text
FullContext ==
    [trigger_author |-> "Ann", trigger_instruction |-> <<"summarize ", "{", "tasks", "}">>,
     conversation_subject |-> "Offer", conversation_url |-> "https://mail/c1",
     project_name |-> "Bridge", project_id |-> Some(7),
     emails |-> << [id |-> MessageId, subject |-> "Offer", from_name |-> "Bob",
                    from_email |-> "bob@example.org", delivered_at |-> DeliveredAt,
                    body |-> <<"Dear Ann, ", "{", "files", "}">>] >>,
     emails_metadata |-> << [id |-> MessageId, subject |-> "Offer", from_name |-> "Bob",
                             from_email |-> "bob@example.org",
                             delivered_at |-> DeliveredAt] >>,
     emails_count |-> 1,
     comments |-> << [author_name |-> "Ann", created_at |-> "2026-11-06 09:00",
                      body |-> <<"@ai summarize ", "{", "tasks", "}">>] >>,
     tasks |-> << [id |-> 11, name |-> "Pour deck", status |-> "new", assigned_to |-> "Bob",
                   updated_at |-> "2026-11-04", tasklist |-> "Site"] >>,
     anforderungen |-> <<>>,
     hinweise |-> << [id |-> 12, name |-> "Frost", status |-> "new",
                      assigned_to |-> "Unassigned", updated_at |-> "2026-11-03",
                      tasklist |-> "Notes"] >>,
     files |-> << [name |-> "plan.pdf", path |-> "/plans", updated_at |-> "2026-11-02"] >>,
     craft_docs |-> << [id |-> "d1", title |-> "Minutes", modified_at |-> "2026-11-01"] >>]

ContextNames == {"empty", "full"}

Context(name) == IF name = "empty" THEN EmptyContext ELSE FullContext

\* a str field as a text: '' has no piece
Text(s) == IF s = "" THEN <<>> ELSE <<s>>

\* the variables dict, built from the context and the wall clock
variables(ctx, now) ==
    [v \in Vocabulary |->
        CASE v = "current_datetime" -> strftime(now)
          [] v = "trigger_author" -> Text(ctx.trigger_author)
          [] v = "trigger_instruction" ->
                IF ctx.trigger_instruction = <<>> THEN <<"(no specific instruction)">>
                ELSE ctx.trigger_instruction
          [] v = "conversation_subject" -> Text(ctx.conversation_subject)
          [] v = "conversation_url" -> Text(ctx.conversation_url)
          [] v = "project_name" -> Text(ctx.project_name)
          [] v = "project_id" ->
                IF ctx.project_id = NULL \/ Val(ctx.project_id) = 0 THEN Text("")
                ELSE Text(str(Val(ctx.project_id)))
          [] v = "emails_summary" -> _format_emails_summary(ctx.emails)
          [] v = "emails_metadata" -> _format_emails_metadata(ctx.emails_metadata)
          [] v = "emails_count" -> Text(str(ctx.emails_count))
          [] v = "comments" -> _format_comments(ctx.comments)
          [] v = "tasks" -> _format_tasks(ctx.tasks, "Tasks")
          [] v = "anforderungen" -> _format_tasks(ctx.anforderungen, "Anforderungen")
          [] v = "hinweise" -> _format_tasks(ctx.hinweise, "Hinweise")
          [] v = "files" -> _format_files(ctx.files)
          [] v = "craft_docs" -> _format_craft_docs(ctx.craft_docs)]

\* variables.get(var_name, ""): an unknown placeholder is dropped
replace_var_Drop(vs, var_name) ==
    IF Len(var_name) = 1 /\ var_name[1] \in DOMAIN vs THEN vs[var_name[1]] ELSE <<>>

\* variables.get(var_name, f"{{unknown:{var_name}}}"); var_name is the run of word
\* pieces between the braces
replace_var(vs, var_name) ==
    IF Len(var_name) = 1 /\ var_name[1] \in DOMAIN vs THEN vs[var_name[1]]
    ELSE <<"{", "unknown", ":">> \o var_name \o <<"}">>

RECURSIVE WordRun(_, _)
\* how many word pieces follow each other from index i on: the greedy \w+
WordRun(t, i) == IF i > Len(t) \/ ~IsWord(t[i]) THEN 0 ELSE 1 + WordRun(t, i + 1)

RECURSIVE re_sub_Rescan(_, _)
\* a substitution that scans the replacement text again
re_sub_Rescan(vs, t) ==
    IF t = <<>> THEN <<>>
    ELSE LET k == WordRun(t, 2)
         IN IF t[1] = "{" /\ k >= 1 /\ Len(t) >= k + 2 /\ t[k + 2] = "}"
            THEN re_sub_Rescan(vs, replace_var(vs, SubSeq(t, 2, k + 1)))
                    \o re_sub_Rescan(vs, SubSeq(t, k + 3, Len(t)))
            ELSE <<t[1]>> \o re_sub_Rescan(vs, Tail(t))

RECURSIVE re_sub(_, _)
\* re.sub(r'\{(\w+)\}', replace_var, template): leftmost matches, left to right, the
\* replacement text is not scanned again
re_sub(vs, t) ==
    IF t = <<>> THEN <<>>
    ELSE LET k == WordRun(t, 2)
         IN IF t[1] = "{" /\ k >= 1 /\ Len(t) >= k + 2 /\ t[k + 2] = "}"
            THEN replace_var(vs, SubSeq(t, 2, k + 1)) \o re_sub(vs, SubSeq(t, k + 3, Len(t)))
            ELSE <<t[1]>> \o re_sub(vs, Tail(t))

render_template(template, ctx, now) == re_sub(variables(ctx, now), template)

RenderInit ==
    /\ \E template \in Templates, name \in ContextNames :
          probe = [fn |-> "render", template |-> template, ctx |-> name, now |-> 0,
                   calls |-> <<>>]
    /\ triggers = <<>>
    /\ InitProcess

\* render_template(template, ctx) called at the present time
RenderCall ==
    /\ probe.fn = "render"
    /\ Len(probe.calls) < 2
    /\ probe' = [probe EXCEPT !.calls =
                    Append(@, [at |-> probe.now,
                               out |-> render_template(probe.template, Context(probe.ctx),
                                                       probe.now)])]
    /\ UNCHANGED <<triggers, posts, shutdown_requested, claimed, pc, sel, locals, log, faults>>

\* time passes between the two calls
Tick ==
    /\ probe.fn = "render"
    /\ Len(probe.calls) = 1
    /\ probe.now < MaxClock
    /\ probe' = [probe EXCEPT !.now = @ + 1]
    /\ UNCHANGED <<triggers, posts, shutdown_requested, claimed, pc, sel, locals, log, faults>>

RenderNext == RenderCall \/ Tick

RenderSpec == RenderInit /\ [][RenderNext]_vars

\* templates whose placeholders name the variables that carry text written by users:
\* the instruction, the comments and the message bodies
UserTextPieces == {"{", "}", "comments", "emails_summary", "trigger_instruction"}

UserTextTemplates == UNION {[1..n -> UserTextPieces] : n \in 0..MaxTemplateLen}

UserTextInit ==
    /\ \E template \in UserTextTemplates, name \in ContextNames :
          probe = [fn |-> "render", template |-> template, ctx |-> name, now |-> 0,
                   calls |-> <<>>]
    /\ triggers = <<>>
    /\ InitProcess

UserTextSpec == UserTextInit /\ [][RenderNext]_vars


\* ------------------------------------- _get_items_by_type's assignee on its own
MaxAssignees == 2

\* what a decoded JSON array of assignees can hold: name records (a key may be
\* missing, which reads as '') and, in malformed data, plain strings
JsonItems ==
    {[kind |-> "dict", first_name |-> f, last_name |-> l] : f \in {"", "Ann"}, l \in {"", "Lee"}}
    \cup {[kind |-> "str", first_name |-> "", last_name |-> ""]}

JsonLists == UNION {[1..n -> JsonItems] : n \in 0..MaxAssignees}

\* what json.loads makes of a text other than an array: a string, a number, null, an
\* object, or JSONDecodeError ("invalid")
ScalarTexts ==
    {[raw |-> "\"Bob\"", kind |-> "str"], [raw |-> "5", kind |-> "num"],
     [raw |-> "null", kind |-> "null"], [raw |-> "{\"first_name\": \"Ann\"}", kind |-> "dict"],
     [raw |-> "not json", kind |-> "invalid"], [raw |-> "", kind |-> "invalid"]}

\* the values of the assigned_to column as the driver hands them over: None, a list
\* or dict already decoded, or text (type, its literal rendering, the kind of JSON value
\* it is or decodes to, and the items of an array)
AssignedToValues ==
    {[type |-> "none", raw |-> "None", kind |-> "null", items |-> <<>>],
     [type |-> "dict", raw |-> "{'first_name': 'Ann'}", kind |-> "dict", items |-> <<>>]}
    \cup {[type |-> "list", raw |-> "[...]", kind |-> "list", items |-> l] : l \in JsonLists}
    \cup {[type |-> "text", raw |-> "[...]", kind |-> "list", items |-> l] : l \in JsonLists}
    \cup {[type |-> "text", raw |-> j.raw, kind |-> j.kind, items |-> <<>>] : j \in ScalarTexts}

\* bool(row[3])
Truthy(v) ==
    CASE v.type = "none" -> FALSE
      [] v.type = "list" -> v.items # <<>>
      [] v.type = "text" -> v.raw # ""
      [] OTHER -> TRUE

\* f"{a.get('first_name', '')} {a.get('last_name', '')}".strip()
FullName(r) ==
    IF r.first_name = "" THEN Text(r.last_name)
    ELSE IF r.last_name = "" THEN <<r.first_name>>
    ELSE <<r.first_name, " ", r.last_name>>

RECURSIVE JoinNames(_)
\* ', '.join(filter(None, names))
JoinNames(names) ==
    IF names = <<>> THEN <<>>
    ELSE LET rest == JoinNames(Tail(names))
         IN IF names[1] = <<>> THEN rest
            ELSE IF rest = <<>> THEN names[1]
            ELSE names[1] \o <<", ">> \o rest

\* the names comprehension over a list: a.get exists on dicts only
NamesOf(items) ==
    IF \E i \in 1..Len(items) : items[i].kind # "dict" THEN [raised |-> "AttributeError", text |-> <<>>]
    ELSE [raised |-> "", text |-> JoinNames([i \in 1..Len(items) |-> FullName(items[i])])]

\* the try block for a truthy row[3]: isinstance / json.loads, the comprehension, the
\* join; JSONDecodeError and TypeError are caught and give str(row[3])
Assignees(v) ==
    CASE v.type = "dict" -> [raised |-> "", text |-> <<v.raw>>]
      [] v.kind = "list" -> NamesOf(v.items)
      [] v.kind \in {"invalid", "num", "null"} -> [raised |-> "", text |-> <<v.raw>>]
      [] v.kind \in {"str", "dict"} -> [raised |-> "AttributeError", text |-> <<>>]

\* assigned_to of the TaskInfo built for one row, or the exception that leaves the loop
assigned_to(v) ==
    LET r == IF Truthy(v) THEN Assignees(v) ELSE [raised |-> "", text |-> <<>>]
    IN IF r.raised # "" THEN r
       ELSE [raised |-> "", text |-> IF r.text = <<>> THEN <<"Unassigned">> ELSE r.text]

AssigneeInit ==
    /\ \E v \in AssignedToValues :
          probe = [fn |-> "assignee", row |-> v, done |-> FALSE,
                   result |-> [raised |-> "", text |-> <<>>]]
    /\ triggers = <<>>
    /\ InitProcess

\* the loop body of _get_items_by_type run on the row
AssigneeCall ==
    /\ probe.fn = "assignee"
    /\ ~probe.done
    /\ probe' = [fn |-> "assignee", row |-> probe.row, done |-> TRUE,
                 result |-> assigned_to(probe.row)]
    /\ UNCHANGED <<triggers, posts, shutdown_requested, claimed, pc, sel, locals, log, faults>>

AssigneeSpec == AssigneeInit /\ [][AssigneeCall]_vars

\* ------------------------------------------- _extract_instruction on its own

MaxBodyLen == 5

\* comment bodies are sequences of characters
Alphabet == {"@", "a", "I", "d", " ", "\n"}

ExampleBodies ==
    {<<"p","l","e","a","s","e"," ","@","a","i"," ","s","u","m","m","a","r","i","z","e"," ","t","h","i","s">>,
     <<"@","A","I"," ","c","h","e","c","k"," ","s","t","a","t","u","s">>,
     <<"c","h","e","c","k"," ","s","t","a","t","u","s">>}

Bodies == UNION {[1..n -> Alphabet] : n \in 0..MaxBodyLen} \cup ExampleBodies

\* \s
Whitespace == {" ", "\n"}

\* \w
WordChars ==
    {"a","b","c","d","e","f","g","h","i","j","k","l","m","n","o","p","q","r","s","t","u","v",
     "w","x","y","z","A","I","_"}

\* re.IGNORECASE on the characters the pattern names
Fold(c) ==
    CASE c = "A" -> "a"
      [] c = "I" -> "i"
      [] OTHER -> c

\* the literal @ai of the pattern matches at position i
MarkerAt(s, i) ==
    /\ i + 2 <= Len(s)
    /\ Fold(s[i]) = "@"
    /\ Fold(s[i + 1]) = "a"
    /\ Fold(s[i + 2]) = "i"

WordBoundary_None(s, j) == TRUE

\* \b after the word character s[j]
WordBoundary(s, j) == j = Len(s) \/ s[j + 1] \notin WordChars

\* re.search: the leftmost position where @ai\b matches (the rest of the pattern,
\* \s*(.*) under DOTALL, matches anything), 0 for no match
re_search(s) ==
    LET hits == {i \in 1..Len(s) : MarkerAt(s, i) /\ WordBoundary(s, i + 2)}
    IN IF hits = {} THEN 0 ELSE CHOOSE i \in hits : \A k \in hits : i <= k

RECURSIVE lstrip(_)
lstrip(s) == IF s # <<>> /\ Head(s) \in Whitespace THEN lstrip(Tail(s)) ELSE s

RECURSIVE rstrip(_)
rstrip(s) ==
    IF s # <<>> /\ s[Len(s)] \in Whitespace THEN rstrip(SubSeq(s, 1, Len(s) - 1)) ELSE s

\* str.strip()
strip(s) == rstrip(lstrip(s))

\* match.group(1): the greedy \s* takes the whitespace after the marker, (.*) the rest
group1(s, i) == lstrip(SubSeq(s, i + 3, Len(s)))

_extract_instruction(comment_body) ==
    LET match == re_search(comment_body)
    IN IF match # 0 THEN strip(group1(comment_body, match)) ELSE <<>>

ExtractInit ==
    /\ \E s \in Bodies : probe = [fn |-> "extract", body |-> s, done |-> FALSE, result |-> <<>>]
    /\ triggers = <<>>
    /\ InitProcess

ExtractCall ==
    /\ probe.fn = "extract"
    /\ ~probe.done
    /\ probe' = [probe EXCEPT !.done = TRUE, !.result = _extract_instruction(probe.body)]
    /\ UNCHANGED <<triggers, posts, shutdown_requested, claimed, pc, sel, locals, log, faults>>

ExtractSpec == ExtractInit /\ [][ExtractCall]_vars

\* ---------------------------------------------------- _get_emails on its own

MaxMessages == 5

\* LIMIT 3 of the detail query
DetailLimit == 3

\* the rows of missive.messages of the conversation, each identified by its delivered_at
\* (distinct per message, so that ORDER BY delivered_at DESC fixes the order)
MessageTimes == 1..MaxMessages

RECURSIVE OrderByDesc(_)
OrderByDesc(S) ==
    IF S = {} THEN <<>>
    ELSE LET m == CHOOSE x \in S : \A y \in S : y <= x
         IN <<m>> \o OrderByDesc(S \ {m})

\* the connection is opened with the driver's defaults: one transaction at READ
\* COMMITTED, where every statement reads the rows committed when it starts
EmailsInit ==
    /\ probe = [fn |-> "emails", messages |-> {}, at |-> "count", total_count |-> 0,
                all_metadata |-> <<>>, emails |-> <<>>]
    /\ triggers = <<>>
    /\ InitProcess

\* the mail sync commits a message to the conversation, possibly one delivered before
\* messages already stored
InsertMessage ==
    /\ probe.fn = "emails"
    /\ \E t \in MessageTimes \ probe.messages :
          probe' = [probe EXCEPT !.messages = probe.messages \cup {t}]
    /\ UNCHANGED <<triggers, posts, shutdown_requested, claimed, pc, sel, locals, log, faults>>

\* SELECT COUNT(*)
EmailsCount ==
    /\ probe.fn = "emails"
    /\ probe.at = "count"
    /\ probe' = [probe EXCEPT !.at = "metadata", !.total_count = Cardinality(probe.messages)]
    /\ UNCHANGED <<triggers, posts, shutdown_requested, claimed, pc, sel, locals, log, faults>>

\* the metadata query over all messages, newest first
EmailsMetadata ==
    /\ probe.fn = "emails"
    /\ probe.at = "metadata"
    /\ probe' = [probe EXCEPT !.at = "detail", !.all_metadata = OrderByDesc(probe.messages)]
    /\ UNCHANGED <<triggers, posts, shutdown_requested, claimed, pc, sel, locals, log, faults>>

\* the detail query: newest first, LIMIT 3; then the return of the three results
EmailsDetail ==
    /\ probe.fn = "emails"
    /\ probe.at = "detail"
    /\ probe' = [probe EXCEPT !.at = "done",
                              !.emails = Truncate(OrderByDesc(probe.messages), DetailLimit)]
    /\ UNCHANGED <<triggers, posts, shutdown_requested, claimed, pc, sel, locals, log, faults>>

EmailsNext == InsertMessage \/ EmailsCount \/ EmailsMetadata \/ EmailsDetail

EmailsSpec == EmailsInit /\ [][EmailsNext]_vars

\* ================================================================ claims
IsPrefix(a, b) == Len(a) <= Len(b) /\ SubSeq(b, 1, Len(a)) = a

Row(w) == triggers[trigger_id(w)]

\* process_trigger has ended for worker w, by return or by an exception
RunReturned(w) == pc[w] = "returned"

RunEnded(w) == pc[w] \in {"returned", "raised"}

Terminal(t) == triggers[t].status \in {"done", "error"}

\* C1: no trigger is returned by claim_pending_trigger to two callers, and no two
\* workers hold the same trigger at the same moment; a held trigger is not pending.
C1_ExclusiveClaim ==
    /\ \A t \in TriggerIds : claimed[t] <= 1
    /\ \A w1, w2 \in Workers :
          (w1 # w2 /\ trigger[w1] # NULL /\ trigger[w2] # NULL) => trigger[w1] # trigger[w2]
    /\ \A w \in Workers : trigger[w] # NULL => Row(w).status # "pending"

C1_Witness ==
    \E w1, w2 \in Workers :
        /\ w1 # w2
        /\ trigger[w1] # NULL /\ trigger[w2] # NULL
        /\ Row(w1).status = "processing" /\ Row(w2).status = "processing"

\* C2: concurrent claimers lock pairwise distinct rows, and a claim's select comes
\* back empty only when there are fewer pending triggers than workers inside a claim
\* call at that moment (every pending row is locked by another claimer): with at
\* least as many pending triggers as concurrent claimers no call gets the empty result.
Claimers == {w \in Workers : pc[w] \in {"claim", "claim_commit"}}

C2_DistinctLocks ==
    \A w1, w2 \in Workers :
        (w1 # w2 /\ pc[w1] = "claim_commit" /\ pc[w2] = "claim_commit" /\ sel[w1] # NULL)
            => sel[w1] # sel[w2]

C2_EmptyOnlyWhenOutnumbered ==
    \A w \in Workers :
        (pc[w] = "claim" /\ pc'[w] = "claim_commit" /\ sel'[w] = NULL)
            => Cardinality(PendingRows) < Cardinality(Claimers)

C2_ConcurrentClaims == []C2_DistinctLocks /\ [][C2_EmptyOnlyWhenOutnumbered]_vars

C2_Witness ==
    \E w1, w2 \in Workers :
        /\ w1 # w2
        /\ pc[w1] = "claim_commit" /\ pc[w2] = "claim_commit"
        /\ sel[w1] # NULL /\ sel[w2] # NULL /\ sel[w1] # sel[w2]

\* C3: a trigger's status changes only pending -> processing, processing -> done or
\* processing -> error; done and error are never left.
AllowedTransitions ==
    {<<"pending", "processing">>, <<"processing", "done">>, <<"processing", "error">>}

C3_StatusStep ==
    \A t \in DOMAIN triggers :
        \/ triggers'[t].status = triggers[t].status
        \/ <<triggers[t].status, triggers'[t].status>> \in AllowedTransitions

C3_MonotonicStatus == [][C3_StatusStep]_vars

C3_Witness ==
    \E t, u \in DOMAIN triggers : triggers[t].status = "done" /\ triggers[u].status = "error"

\* C4 (as claimed): every pending trigger is eventually finalized as done or error
\* while the workers keep polling.
C4_EventuallyFinalized ==
    \A t \in TriggerIds :
        (t \in DOMAIN triggers /\ triggers[t].status = "pending")
            ~> (t \in DOMAIN triggers /\ Terminal(t))


\* C5: in a run where the placeholder was posted and no collaborator call failed, the
\* events happen in the order placeholder created -> recorded -> context -> render ->
\* reasoning returns T -> placeholder deleted -> result posted with body T -> done
\* written with body T and the result post's reference; no error message is posted.
SuccessOrder ==
    <<"placeholder_created", "placeholder_recorded", "context_fetched", "rendered",
      "claude_returned", "placeholder_deleted", "result_posted", "done_written">>

CleanRun(w) ==
    /\ trigger[w] # NULL
    /\ log[w] # <<>>
    /\ \A i \in 1..Len(log[w]) : \E j \in 1..Len(SuccessOrder) : log[w][i] = SuccessOrder[j]

IsErrorPost(i) == posts[i].markdown[1] = GenericErrorText

C6_ReasoningFailureIsError ==
    \A w \in Workers :
        (trigger[w] # NULL /\ InLog(w, "claude_failed")) =>
            /\ ~InLog(w, "result_posted")
            /\ Row(w).status # "done"
            /\ RunReturned(w) =>
                  (Row(w).status = "error" /\ Row(w).error_message # NULL
                   /\ InLog(w, "error_posted"))

\* C7 (as claimed): a write that finalizes a trigger as error leaves the result
\* reference and the result body as they were.
BecomesError(t) == triggers[t].status # "error" /\ triggers'[t].status = "error"

C7_ResultFieldsUntouchedStep ==
    \A t \in DOMAIN triggers :
        BecomesError(t) =>
            /\ triggers'[t].result_post_id = triggers[t].result_post_id
            /\ triggers'[t].result_markdown = triggers[t].result_markdown

C7_ResultFieldsUntouched == [][C7_ResultFieldsUntouchedStep]_vars

\* C7 (amended): a write that finalizes a trigger as error leaves the result body and
\* the placeholder reference as they were, sets status, error description and the
\* timestamp, and overwrites the result reference with the reference of the error
\* message when that message was posted (keeps it when posting the error message failed).
C7_ErrorWriteStep ==
    \A t \in DOMAIN triggers :
        BecomesError(t) =>
            \E w \in Workers :
                /\ pc[w] = "exc_write" /\ trigger_id(w) = t
                /\ triggers'[t].result_markdown = triggers[t].result_markdown
                /\ triggers'[t].placeholder_post_id = triggers[t].placeholder_post_id
                /\ triggers'[t].error_message = e[w] /\ e[w] # NULL
                /\ Val(triggers'[t].processed_at) > Val(triggers[t].processed_at)
                /\ triggers'[t].result_post_id =
                      (IF error_post_id[w] = NULL THEN triggers[t].result_post_id
                       ELSE error_post_id[w])

C7_ErrorWrite == [][C7_ErrorWriteStep]_vars

C7_Witness ==
    \E t \in DOMAIN triggers :
        /\ triggers[t].status = "error"
        /\ triggers[t].placeholder_post_id # NULL
        /\ triggers[t].result_post_id # NULL
        /\ IsErrorPost(Val(triggers[t].result_post_id))
        /\ triggers[t].result_markdown = NULL

\* C8 (as claimed): a run whose result post failed finalizes the trigger as error,
\* never as done.
C8_ResultPostFailureIsError ==
    \A w \in Workers :
        (trigger[w] # NULL /\ InLog(w, "result_post_failed")) =>
            /\ Row(w).status # "done"
            /\ RunReturned(w) => Row(w).status = "error"

\* C9 (as claimed): a run in which posting the placeholder or recording its reference
\* failed still goes on to context aggregation and ends with the trigger done or error.
C9_PlaceholderBestEffort ==
    \A w \in Workers :
        (RunEnded(w) /\ (InLog(w, "placeholder_post_failed")
                         \/ InLog(w, "placeholder_record_failed"))) =>
            /\ InLog(w, "context_fetched") \/ InLog(w, "context_failed")
            /\ Terminal(trigger_id(w))

\* C10 (as claimed): once a run that created a placeholder has posted its result or
\* error message and ended, the placeholder no longer exists.
C10_NoStalePlaceholder ==
    \A w \in Workers :
        (RunEnded(w) /\ placeholder_id[w] # NULL
         /\ (InLog(w, "result_posted") \/ InLog(w, "error_posted"))) =>
            ~posts[Val(placeholder_id[w])].exists

\* C11 (as claimed): a run in which context aggregation, the reasoning call, the
\* placeholder deletion, the result post or the done write failed executes the
\* compensation exactly once: one attempt to post the error message and one error write.
Count(w, evs) == Cardinality({i \in 1..Len(log[w]) : log[w][i] \in evs})

StepFailed(w) ==
    \E ev \in {"context_failed", "claude_failed", "placeholder_delete_failed",
               "result_post_failed", "done_write_failed"} : InLog(w, ev)

C11_CompensationOnce ==
    \A w \in Workers :
        (RunEnded(w) /\ StepFailed(w)) =>
            /\ Count(w, {"error_posted", "error_post_failed"}) = 1
            /\ Count(w, {"error_written", "error_write_failed"}) = 1

\* C13: the claim's select locks the pending trigger with the smallest creation time
\* among those no concurrent claimer has locked (none when there is no such trigger);
\* its commit sets exactly that trigger to processing with a timestamp later than every
\* time the row held, changes nothing else, and returns the trigger's id, conversation
\* reference, instruction text ('' for a missing one) and author (as text, or None).
Claimable == {t \in PendingRows : ~Locked(t)}

C13_SelectStep ==
    \A w \in Workers :
        (pc[w] = "claim" /\ pc'[w] = "claim_commit") =>
            /\ triggers' = triggers
            /\ IF Claimable = {} THEN sel'[w] = NULL
               ELSE \E t \in Claimable :
                       /\ sel'[w] = Some(t)
                       /\ \A u \in Claimable :
                             u # t => triggers[t].created_at < triggers[u].created_at

C13_CommitStep ==
    \A w \in Workers :
        (pc[w] = "claim_commit" /\ sel[w] # NULL /\ pc'[w] = "post_placeholder") =>
            LET t == Val(sel[w])
            IN /\ triggers[t].status = "pending"
               /\ triggers'[t] = [triggers[t] EXCEPT !.status = "processing",
                                                     !.processed_at = triggers'[t].processed_at]
               /\ triggers'[t].processed_at # NULL
               /\ Val(triggers'[t].processed_at) > triggers[t].created_at
               /\ \A u \in DOMAIN triggers : u # t => triggers'[u] = triggers[u]
               /\ DOMAIN triggers' = DOMAIN triggers
               /\ trigger'[w] =
                     Some([id |-> t,
                           conversation_id |-> triggers[t].conversation_id,
                           comment_body |-> IF triggers[t].comment_body = NULL THEN <<>>
                                            ELSE triggers[t].comment_body[1],
                           author_id |-> IF triggers[t].author_id = NULL THEN NULL
                                         ELSE <<ToString(triggers[t].author_id[1])>>])

C13_ClaimOldest == [][C13_SelectStep /\ C13_CommitStep]_vars

\* a worker holds the older of two triggers while the younger one, with the smaller id,
\* is still pending
C13_Witness ==
    \E w \in Workers, u \in DOMAIN triggers :
        /\ pc[w] = "post_placeholder"
        /\ triggers[u].status = "pending"
        /\ triggers[u].created_at > triggers[trigger_id(w)].created_at
        /\ u < trigger_id(w)
        /\ Val(trigger[w]).author_id = NULL

\* C14: a claim made while no trigger is pending selects nothing and changes no trigger;
\* a claim that selected nothing returns None: no trigger is changed, the worker holds
\* no trigger, and unless the storage failed the worker goes to the poll-interval sleep
\* (never to the error backoff), from which it starts the next cycle.
C14_EmptyClaimStep ==
    \A w \in Workers :
        /\ (pc[w] = "claim" /\ pc'[w] = "claim_commit" /\ PendingRows = {}) =>
              (sel'[w] = NULL /\ triggers' = triggers)
        /\ (pc[w] = "claim_commit" /\ sel[w] = NULL /\ pc'[w] # pc[w] /\ faults' = faults) =>
              (pc'[w] = "idle" /\ triggers' = triggers /\ trigger'[w] = NULL)
        /\ (pc[w] = "idle" /\ pc'[w] # pc[w]) =>
              (pc'[w] = "loop" /\ triggers' = triggers)

C14_EmptyClaim == [][C14_EmptyClaimStep]_vars

C14_Witness ==
    \E w \in Workers : pc[w] = "idle" /\ PendingRows = {} /\ faults = 0

\* C15: when the storage fails during a claim the worker goes to the error backoff,
\* never to the poll-interval sleep of the empty claim; no trigger is changed, none is
\* handed to the worker, and the row lock the claim held is released.
C15_ClaimFailureStep ==
    \A w \in Workers :
        (pc[w] \in {"claim", "claim_commit"} /\ pc'[w] # pc[w] /\ faults' # faults) =>
            /\ pc'[w] = "backoff"
            /\ triggers' = triggers
            /\ claimed' = claimed
            /\ trigger'[w] = NULL
            /\ sel'[w] = NULL

C15_ClaimFailure == [][C15_ClaimFailureStep]_vars

\* a worker backs off while every trigger is still pending: its claim failed
C15_Witness ==
    \E w \in Workers :
        /\ pc[w] = "backoff"
        /\ faults > 0
        /\ DOMAIN triggers # {}
        /\ \A t \in DOMAIN triggers : triggers[t].status = "pending"

\* C16: an exception of the claim or one that leaves process_trigger takes the worker
\* to the error backoff and from there to the next test of the loop condition; the
\* poll loop is left only from that test and only with shutdown requested.
C16_ContainedStep ==
    \A w \in Workers :
        /\ (pc[w] = "raised" /\ pc'[w] # pc[w]) => pc'[w] = "backoff"
        /\ (pc[w] \in {"claim", "claim_commit"} /\ pc'[w] # pc[w] /\ faults' # faults) =>
              pc'[w] = "backoff"
        /\ (pc[w] = "backoff" /\ pc'[w] # pc[w]) => pc'[w] = "loop"
        /\ (pc'[w] = "stopped" /\ pc[w] # "stopped") =>
              (pc[w] = "loop" /\ shutdown_requested[w])

C16_StoppedOnlyOnShutdown ==
    \A w \in Workers : pc[w] = "stopped" => shutdown_requested[w]

C16_ExceptionsContained == []C16_StoppedOnlyOnShutdown /\ [][C16_ContainedStep]_vars

\* a worker is in the backoff after process_trigger raised (its trigger is left in
\* processing, held by nobody) and no shutdown was requested
C16_Witness ==
    \E w \in Workers :
        /\ pc[w] = "backoff"
        /\ ~shutdown_requested[w]
        /\ \E t \in DOMAIN triggers :
              /\ triggers[t].status = "processing"
              /\ \A v \in Workers : trigger[v] = NULL \/ trigger_id(v) # t

\* C17: a worker whose shutdown flag is set eventually leaves the poll loop; a pipeline
\* run under way when the flag is set reaches the end of process_trigger; the signal
\* itself changes only the flag, and the loop is left only from the test of its
\* condition, with no trigger in hand.
C17_NoCancelStep ==
    \A w \in Workers :
        /\ (shutdown_requested'[w] /\ ~shutdown_requested[w]) =>
              (pc' = pc /\ sel' = sel /\ trigger' = trigger /\ log' = log
               /\ triggers' = triggers /\ posts' = posts)
        /\ (pc'[w] = "stopped" /\ pc[w] # "stopped") =>
              (pc[w] = "loop" /\ trigger[w] = NULL)

C17_GracefulShutdown ==
    /\ \A w \in Workers : shutdown_requested[w] ~> pc[w] = "stopped"
    /\ \A w \in Workers : (shutdown_requested[w] /\ trigger[w] # NULL) ~> RunEnded(w)
    /\ [][C17_NoCancelStep]_vars

\* a run that was still going on after the flag was set has ended with its trigger
\* finalized
C17_Witness ==
    \E w \in Workers :
        /\ shutdown_requested[w]
        /\ RunReturned(w)
        /\ Terminal(trigger_id(w))

\* C18 (as claimed): the error message posted by the except branch is the generic
\* sentence followed by a fragment strictly shorter than the raw error text, and a
\* result message posted after the reasoning call failed does not contain the raw
\* error text of that failure.
Contains(s, part) ==
    \E i \in 0..(Len(s) - Len(part)) : SubSeq(s, i + 1, i + Len(part)) = part

C18_NoFullRawError ==
    \A w \in Workers :
        /\ error_post_id[w] # NULL =>
              LET m == posts[Val(error_post_id[w])].markdown
              IN /\ m[1] = GenericErrorText
                 /\ Len(m) - 1 < Len(Val(e[w]))
        /\ (InLog(w, "claude_failed") /\ result_post_id[w] # NULL) =>
              ~Contains(posts[Val(result_post_id[w])].markdown, RawApiError)

\* C19 (as claimed): two calls of render_template with the same template and the same
\* context give the same output, whatever the time of each call.
BothRendered == probe.fn = "render" /\ Len(probe.calls) = 2

C19_RenderIdempotent ==
    BothRendered => probe.calls[1].out = probe.calls[2].out

\* C19 (amended): two calls of render_template with the same template and the same
\* context give the same output when both fall into the same minute of the wall
\* clock or the template holds no {current_datetime} placeholder.
SameMinute(a, b) == a \div TicksPerMinute = b \div TicksPerMinute

UsesClock(t) ==
    \E i \in 1..(Len(t) - 2) : SubSeq(t, i, i + 2) = <<"{", "current_datetime", "}">>

C19_RenderIdempotentWithinMinute ==
    (BothRendered /\ (SameMinute(probe.calls[1].at, probe.calls[2].at)
                      \/ ~UsesClock(probe.template))) =>
        probe.calls[1].out = probe.calls[2].out

\* the template shows the time, the clock advanced between the calls without leaving
\* the minute, and the outputs agree
C19_Witness ==
    /\ BothRendered
    /\ UsesClock(probe.template)
    /\ probe.calls[1].at < probe.calls[2].at
    /\ SameMinute(probe.calls[1].at, probe.calls[2].at)
    /\ probe.calls[1].out = probe.calls[2].out

\* C20: in the output of render_template every placeholder of the template - a "{", a
\* run of word characters, a "}" - stands replaced, by the variable's value when the
\* name is one of the 16 of the vocabulary and by {unknown:name} otherwise, with the
\* text before and after it rendered the same way; a template without a placeholder
\* is returned as it is; each of the 16 names alone in braces renders to its value.
IsPlaceholder(t, i, k) ==
    /\ k >= 1
    /\ i + k + 1 <= Len(t)
    /\ t[i] = "{"
    /\ \A j \in (i + 1)..(i + k) : IsWord(t[j])
    /\ t[i + k + 1] = "}"

Replacement(vs, name) ==
    IF Len(name) = 1 /\ name[1] \in Vocabulary THEN vs[name[1]]
    ELSE <<"{", "unknown", ":">> \o name \o <<"}">>

C20_Placeholders ==
    (probe.fn = "render" /\ probe.calls # <<>>) =>
        LET t == probe.template
            out == probe.calls[1].out
            vs == variables(Context(probe.ctx), probe.calls[1].at)
        IN /\ Cardinality(Vocabulary) = 16
           /\ DOMAIN vs = Vocabulary
           /\ \A v \in Vocabulary : re_sub(vs, <<"{", v, "}">>) = vs[v]
           /\ (\A i, k \in 1..Len(t) : ~IsPlaceholder(t, i, k)) => out = t
           /\ \A i, k \in 1..Len(t) :
                 IsPlaceholder(t, i, k) =>
                    out = re_sub(vs, SubSeq(t, 1, i - 1))
                            \o Replacement(vs, SubSeq(t, i + 1, i + k))
                            \o re_sub(vs, SubSeq(t, i + k + 2, Len(t)))

\* a template with a placeholder outside the vocabulary was rendered and the marked
\* token stands in the output, followed by what followed the placeholder
C20_Witness ==
    /\ probe.fn = "render"
    /\ probe.calls # <<>>
    /\ probe.template = <<"{", "bogus", "}", " ", "}">>
    /\ probe.calls[1].out = <<"{", "unknown", ":", "bogus", "}", " ", "}">>

\* C12: after update_trigger_status the row holds the status given; each of placeholder
\* reference, result reference, result body and error text holds its previous value
\* when the argument was omitted (None) and the supplied value otherwise; the timestamp
\* is later than before; nothing else changed; and after the same call made again every
\* field but the timestamp is as the first call left it.
Kept(arg, old) == IF arg = NULL THEN old ELSE arg

C12_PartialUpdate ==
    probe.fn = "update" =>
        LET row == triggers[1]
            old == probe.before
        IN /\ row.status = probe.status
           /\ row.placeholder_post_id = Kept(probe.ph, old.placeholder_post_id)
           /\ row.result_post_id = Kept(probe.rp, old.result_post_id)
           /\ row.result_markdown = Kept(probe.rm, old.result_markdown)
           /\ row.error_message = Kept(probe.em, old.error_message)
           /\ Val(row.processed_at) > Val(old.processed_at)
           /\ row.conversation_id = old.conversation_id
           /\ row.created_at = old.created_at
           /\ probe.calls = 2 => [row EXCEPT !.processed_at = NULL]
                                    = [old EXCEPT !.processed_at = NULL]

\* a second call that kept a stored value (argument omitted) and kept a written one
C12_Witness ==
    /\ probe.fn = "update"
    /\ probe.calls = 2
    /\ probe.ph = NULL /\ triggers[1].placeholder_post_id = Some("a")
    /\ probe.rm = Some("b") /\ triggers[1].result_markdown = Some("b")
    /\ probe.em = NULL /\ triggers[1].error_message = NULL

\* C21: no step removes a trigger; a row that appears is a pending one; a step changes
\* at most one stored trigger, and that one is the row a committing claim holds locked
\* or the trigger of the worker whose status write is applied.
Changed == {t \in DOMAIN triggers : triggers'[t] # triggers[t]}

C21_FrameStep ==
    /\ DOMAIN triggers \subseteq DOMAIN triggers'
    /\ \A t \in DOMAIN triggers' \ DOMAIN triggers : triggers'[t].status = "pending"
    /\ Cardinality(Changed) <= 1
    /\ \A t \in Changed :
          \E w \in Workers :
              /\ pc'[w] # pc[w]
              /\ \/ pc[w] = "claim_commit" /\ sel[w] = Some(t)
                 \/ /\ pc[w] \in {"record_placeholder", "write_done", "exc_write"}
                    /\ trigger_id(w) = t

C21_TriggersKept == [][C21_FrameStep]_vars

\* one trigger was claimed and finalized while the other one stayed as inserted
C21_Witness ==
    \E t, u \in DOMAIN triggers :
        /\ triggers[t].status = "done"
        /\ triggers[u] = [triggers[u] EXCEPT !.status = "pending", !.processed_at = NULL,
                                              !.result_markdown = NULL]

\* C22: the prompt a run hands to the reasoning call was rendered from the override
\* when the prompt source held a non-empty one, and from the built-in default when the
\* override was empty, absent or the source unreachable; in each case, the unreachable
\* source included, the run has gone on to the reasoning call with no exception caught.
C22_PromptFallback ==
    \A w \in Workers :
        rendered_prompt[w] # NULL =>
            LET r == Val(rendered_prompt[w])
            IN /\ r.source = "override" => r.template = "override"
               /\ r.source \in {"empty", "absent", "unreachable"} => r.template = "default"
               /\ pc[w] = "call_claude"
               /\ e[w] = NULL
               /\ log[w][Len(log[w])] = "rendered"

C22_Witness ==
    \E w \in Workers :
        /\ rendered_prompt[w] = Some([source |-> "unreachable", template |-> "default"])
        /\ pc[w] = "call_claude"

\* C23 (as claimed): a run whose context aggregation failed never calls the reasoning
\* collaborator and ends with the placeholder (if any) deleted, the error message
\* posted and the trigger finalized as error.
C23_AggregationFailureAborts ==
    \A w \in Workers :
        (trigger[w] # NULL /\ InLog(w, "context_failed")) =>
            /\ ~InLog(w, "claude_returned") /\ ~InLog(w, "claude_failed")
            /\ RunEnded(w) =>
                  /\ placeholder_id[w] # NULL => ~posts[Val(placeholder_id[w])].exists
                  /\ InLog(w, "error_posted")
                  /\ Row(w).status = "error"

\* C24 (as claimed): whatever the shape of the assignee value, the task-like fetch does
\* not fail on it and the row gets a display string.
C24_AssigneeNeverFails ==
    (probe.fn = "assignee" /\ probe.done) =>
        (probe.result.raised = "" /\ probe.result.text # <<>>)

\* the positions where the three characters @ai occur, in any case
Occurrences(s) == {i \in 1..Len(s) : MarkerAt(s, i)}

\* the positions where @ai occurs as a token, that is, not continued by a word character
TokenOccurrences(s) ==
    {i \in Occurrences(s) : i + 2 = Len(s) \/ s[i + 3] \notin WordChars}

First(S) == CHOOSE i \in S : \A k \in S : i <= k

\* C25 (as claimed): the instruction is the trimmed text after the first case-insensitive
\* occurrence of "@ai", and empty when "@ai" does not occur.
C25_ExtractAfterMarker ==
    (probe.fn = "extract" /\ probe.done) =>
        LET s == probe.body
        IN IF Occurrences(s) = {} THEN probe.result = <<>>
           ELSE probe.result = strip(SubSeq(s, First(Occurrences(s)) + 3, Len(s)))

\* C25 (amended): the instruction is the trimmed text after the first case-insensitive
\* occurrence of "@ai" that is not continued by a word character, and empty when there
\* is no such occurrence; the three examples of the claim give the results it names.
C25_ExtractAfterToken ==
    (probe.fn = "extract" /\ probe.done) =>
        LET s == probe.body
        IN /\ IF TokenOccurrences(s) = {} THEN probe.result = <<>>
              ELSE probe.result = strip(SubSeq(s, First(TokenOccurrences(s)) + 3, Len(s)))
           /\ (s = <<"p","l","e","a","s","e"," ","@","a","i"," ","s","u","m","m","a","r","i","z","e"," ","t","h","i","s">>
                  => probe.result = <<"s","u","m","m","a","r","i","z","e"," ","t","h","i","s">>)
           /\ (s = <<"@","A","I"," ","c","h","e","c","k"," ","s","t","a","t","u","s">>
                  => probe.result = <<"c","h","e","c","k"," ","s","t","a","t","u","s">>)
           /\ (Occurrences(s) = {} => probe.result = <<>>)

\* "@aId ": the marker occurs but is continued by a word character, so nothing is extracted
C25_Witness ==
    /\ probe.fn = "extract"
    /\ probe.done
    /\ probe.body = <<"@", "a", "I", "d", " ">>
    /\ probe.result = <<>>

\* C26 (as claimed): one fetch yields a count equal to the length of its metadata
\* listing and a detail list holding the newest min(3, n) entries of that listing,
\* newest first, also when messages are added while the fetch runs.
C26_EmailsConsistent ==
    (probe.fn = "emails" /\ probe.at = "done") =>
        /\ probe.total_count = Len(probe.all_metadata)
        /\ probe.emails = Truncate(probe.all_metadata, DetailLimit)

\* C27 (as claimed): one run of process_trigger never publishes both a result message
\* and an error message to the conversation.
C27_ResultOrErrorPosted ==
    \A w \in Workers : ~(result_post_id[w] # NULL /\ error_post_id[w] # NULL)

\* the worker is in process_trigger with trigger t
Holds(w, t) == trigger[w] # NULL /\ trigger_id(w) = t

\* C28 (as claimed): every trigger in processing is the trigger some worker is running
\* process_trigger on, so at most one trigger per worker is in processing.
C28_NoOrphanedProcessing ==
    /\ \A t \in DOMAIN triggers :
          triggers[t].status = "processing" => \E w \in Workers : Holds(w, t)
    /\ Cardinality({t \in DOMAIN triggers : triggers[t].status = "processing"}) <= NumWorkers

\* C29: when process_trigger has returned without raising, its trigger is done or
\* error; a run that ended with its trigger still in processing ended by raising.
C29_ReturnMeansFinalized ==
    \A w \in Workers :
        (trigger[w] # NULL /\ RunEnded(w)) =>
            /\ RunReturned(w) => Terminal(trigger_id(w))
            /\ Row(w).status = "processing" => pc[w] = "raised"

\* a run that returned, and a run that raised out of the except branch
C29_Witness ==
    \E w1, w2 \in Workers :
        /\ trigger[w1] # NULL /\ RunReturned(w1) /\ Row(w1).status = "done"
        /\ trigger[w2] # NULL /\ pc[w2] = "raised" /\ InLog(w2, "error_write_failed")
        /\ Row(w2).status = "processing"

\* C30: a trigger with status done has a result body and no error description, a
\* trigger with status error has an error description and no result body.
C30_ResultXorError ==
    \A t \in DOMAIN triggers :
        /\ triggers[t].status = "done" =>
              (triggers[t].result_markdown # NULL /\ triggers[t].error_message = NULL)
        /\ triggers[t].status = "error" =>
              (triggers[t].error_message # NULL /\ triggers[t].result_markdown = NULL)

\* one trigger finalized as done; another finalized as error by a run that had a
\* response in hand when the done write failed
C30_Witness ==
    \E t, u \in DOMAIN triggers :
        /\ triggers[t].status = "done" /\ triggers[t].result_markdown # NULL
        /\ triggers[u].status = "error" /\ triggers[u].error_message = Some(StorageError)
        /\ triggers[u].result_post_id # NULL

\* C31: once the shutdown flag of a worker is set it stays set, and the worker enters
\* claim_pending_trigger only if its loop test had already passed: after the flag is
\* set the worker is at the claim at most once, so it starts at most one further claim
\* and runs process_trigger only on the trigger of that claim.
C31_ClaimStep ==
    \A w \in Workers :
        /\ shutdown_requested[w] => shutdown_requested'[w]
        /\ (shutdown_requested[w] /\ pc[w] # "claim") => pc'[w] # "claim"
        /\ (shutdown_requested[w] /\ pc'[w] = "post_placeholder" /\ pc[w] # pc'[w])
              => pc[w] = "claim_commit"

C31_OneFurtherClaim == [][C31_ClaimStep]_vars

\* the signal arrived after the loop test had passed: the worker is about to start a
\* claim with its flag set, and a pending trigger is there to be claimed
C31_Witness ==
    \E w \in Workers :
        /\ shutdown_requested[w]
        /\ pc[w] = "claim"
        /\ PendingRows # {}

\* C32: substitution is single-pass. With a context whose instruction and comment hold
\* "{tasks}" and whose message body holds "{files}", and a template that names neither
\* tasks nor files, the output of render_template holds neither the tasks block nor
\* the file listing, and wherever the template has the {comments}, {trigger_instruction}
\* or {emails_summary} placeholder the output holds the value's placeholder-shaped
\* text as it is.
C32_SinglePass ==
    (probe.fn = "render" /\ probe.ctx = "full"
        /\ \A i \in 1..Len(probe.template) : probe.template[i] \notin {"tasks", "files"}) =>
        \A c \in 1..Len(probe.calls) :
            LET out == probe.calls[c].out
                vs == variables(FullContext, probe.calls[c].at)
                t == probe.template
            IN /\ ~Contains(out, vs["tasks"])
               /\ ~Contains(out, vs["files"])
               /\ \A v \in {"comments", "trigger_instruction"} :
                     Contains(t, <<"{", v, "}">>) =>
                        (Contains(out, vs[v]) /\ Contains(vs[v], <<"{", "tasks", "}">>))
               /\ Contains(t, <<"{", "emails_summary", "}">>) =>
                     (Contains(out, vs["emails_summary"])
                        /\ Contains(vs["emails_summary"], <<"{", "files", "}">>))

\* the comments were rendered into the prompt and their "{tasks}" stands in the output
C32_Witness ==
    /\ probe.fn = "render"
    /\ probe.ctx = "full"
    /\ probe.template = <<"{", "comments", "}">>
    /\ probe.calls # <<>>
    /\ Contains(probe.calls[1].out, <<"{", "tasks", "}">>)
    /\ ~Contains(probe.calls[1].out, <<"Pour deck">>)

====
